---- MODULE Spec2Model ----
(***************************************************************************)
(* Device meshes of realhf/api/quickstart/device_mesh.py and the          *)
(* FrequencyControl of realhf/base/timeutil.py.                            *)
(*                                                                         *)
(* A mapping is a function [0..n-1 -> [0..g-1 -> Int]] (the numpy array,   *)
(* indexed from 0 as in the code).  A node-list name such as "NODE[01-02]" *)
(* is a sequence of items, an item being <<i>> (one node) or <<i, j>> (the *)
(* range i-j); the fixed prefix and the zero padding are left out.  A mesh *)
(* name "NODE01:0,1" is a record of the node-list name, whether it has a   *)
(* ":" part, and the GPU ids after the ":".  None is the empty name.       *)
(* A call that raises is a result whose status names the exception.        *)
(***************************************************************************)
EXTENDS Integers, Sequences, FiniteSets, TLC

\* a, b: two device meshes; res: the last call and its result;
\* fc: the fields of a FrequencyControl; thr: where each calling thread stands
\* in check(); hist: the constructor arguments, the number of calls the run
\* makes and the calls that returned;
\* clock: the time datetime.now() last gave
VARIABLES a, b, res, fc, thr, hist, clock

vars == <<a, b, res, fc, thr, hist, clock>>
\* the variables of the FrequencyControl, which no mesh operation touches
ctl == <<fc, thr, hist, clock>>
NoFrequencyControl == fc = << >> /\ thr = << >> /\ hist = << >> /\ clock = 0

\* ------------------------------------------------------------------ bounds
MaxNodes == 3
MaxCells == 8
MaxPairCells == 4

\* n_gpus_per_node values tried (3 is not a power of two)
GpuWidths == {1, 2, 3, 4, 8}

\* ------------------------------------------------------------- names, None
NoneGlobal == << >>
NoneName == [nodes |-> << >>, colon |-> FALSE, gpus |-> << >>]
Idle == [op |-> "none", status |-> "ok"]
NoMesh == [n_nodes |-> 0, n_gpus_per_node |-> 0, mapping |-> << >>,
           global_mesh_name |-> NoneGlobal, name |-> NoneName,
           gpu_memory_capacity |-> 0]

\* ------------------------------------------------------------ numpy helpers
Rows(mp) == Cardinality(DOMAIN mp)
Cols(mp) == IF Rows(mp) = 0 THEN 0 ELSE Cardinality(DOMAIN mp[0])
Cells(mp) == {<<i, j>> \in (0 .. Rows(mp) - 1) \X (0 .. Cols(mp) - 1) : TRUE}
FlatIndex(mp, c) == c[1] * Cols(mp) + c[2]
FlatAt(mp, idx) == mp[idx \div Cols(mp)][idx % Cols(mp)]

RECURSIVE SumUpTo(_, _)
SumUpTo(mp, idx) == IF idx < 0 THEN 0 ELSE FlatAt(mp, idx) + SumUpTo(mp, idx - 1)
\* mapping.sum()
Sum(mp) == SumUpTo(mp, Rows(mp) * Cols(mp) - 1)

RECURSIVE RowSumUpTo(_, _, _)
RowSumUpTo(mp, i, j) == IF j < 0 THEN 0 ELSE mp[i][j] + RowSumUpTo(mp, i, j - 1)
\* mapping.sum(1)[i]
RowSum(mp, i) == RowSumUpTo(mp, i, Cols(mp) - 1)

\* np.where(mapping == 1): the cells holding 1
Ones(mp) == {c \in Cells(mp) : mp[c[1]][c[2]] = 1}

\* the members of a finite set of integers in ascending order
RECURSIVE SortedSeq(_)
SortedSeq(S) ==
    IF S = {} THEN << >>
    ELSE LET m == CHOOSE x \in S : \A y \in S : x <= y
         IN <<m>> \o SortedSeq(S \ {m})

IsPow2(x) == \E e \in 0 .. 10 : 2 ^ e = x
Log2(x) == CHOOSE e \in 0 .. 10 : 2 ^ e = x

\* --------------------------------------------------------- slurm_utils
\* parse_nodelist: the node indices a node-list name stands for, in order
RECURSIVE parse_nodelist(_)
parse_nodelist(nm) ==
    IF nm = << >> THEN << >>
    ELSE LET it == Head(nm)
             lo == it[1]
             hi == it[Len(it)]
         IN [k \in 1 .. (hi - lo + 1) |-> lo + k - 1] \o parse_nodelist(Tail(nm))

\* nodelist_from_nodes: runs of consecutive indices collapse to a range
RECURSIVE nodelist_from_nodes(_)
nodelist_from_nodes(nodes) ==
    IF nodes = << >> THEN << >>
    ELSE LET run == CHOOSE r \in 1 .. Len(nodes) :
                      /\ \A k \in 1 .. r : nodes[k] = nodes[1] + k - 1
                      /\ (r < Len(nodes) => nodes[r + 1] # nodes[r] + 1)
             item == IF run = 1 THEN <<nodes[1]>> ELSE <<nodes[1], nodes[run]>>
         IN <<item>> \o nodelist_from_nodes(SubSeq(nodes, run + 1, Len(nodes)))

\* are_ones_contiguous: the 1s of the flattened mapping form one run
are_ones_contiguous(mp) ==
    LET idx == {FlatIndex(mp, c) : c \in Ones(mp)}
    IN /\ idx # {}
       /\ \A x \in idx, y \in idx : \A z \in x .. y : z \in idx

\* ------------------------------------------------------------- DeviceMesh
\* device_mesh_name_from_mapping
device_mesh_name_from_mapping(global_mesh_name, mapping) ==
    LET node_list == parse_nodelist(global_mesh_name)
        ones == Ones(mapping)
        first == CHOOSE c \in ones : \A d \in ones : FlatIndex(mapping, c) <= FlatIndex(mapping, d)
        flat == SortedSeq({FlatIndex(mapping, c) : c \in ones})
        gpu_ids == [k \in 1 .. Len(flat) |-> flat[k] % Cols(mapping)]
        unique_node_indices == SortedSeq({c[1] : c \in ones})
        sub_node_list == [k \in 1 .. Len(unique_node_indices) |->
                             node_list[unique_node_indices[k] + 1]]
    IN IF Rows(mapping) # Len(node_list)
       THEN [status |-> "AssertionError", name |-> NoneName]
       ELSE IF Sum(mapping) < Cols(mapping)
       THEN IF ones = {}
            THEN [status |-> "IndexError", name |-> NoneName]
            ELSE [status |-> "ok",
                  name |-> [nodes |-> << <<node_list[first[1] + 1]>> >>,
                            colon |-> TRUE, gpus |-> gpu_ids]]
       ELSE [status |-> "ok",
             name |-> [nodes |-> nodelist_from_nodes(sub_node_list),
                       colon |-> FALSE, gpus |-> << >>]]

\* the f-string of __post_init__ for an absent global_mesh_name
DefaultGlobalName(n_nodes) ==
    IF n_nodes > 1 THEN << <<1, n_nodes>> >> ELSE << <<1>> >>

\* one_node_valid_gpus as range(1, n_gpus_per_node): every count below a node
one_node_valid_gpus_linear(n_gpus_per_node) == 1 .. n_gpus_per_node - 1

\* 2**i for i in range(int(math.log(n_gpus_per_node, 2)))
one_node_valid_gpus(n_gpus_per_node) ==
    {2 ^ i : i \in 0 .. Log2(n_gpus_per_node) - 1}

\* _is_valid_mapping with the sub-node count check left out
is_valid_mapping_any_count(m) ==
    IF <<Rows(m.mapping), Cols(m.mapping)>> # <<m.n_nodes, m.n_gpus_per_node>>
    THEN "RuntimeError"
    ELSE IF ~ \A c \in Cells(m.mapping) : m.mapping[c[1]][c[2]] \in {0, 1}
    THEN "RuntimeError"
    ELSE IF ~ IsPow2(m.n_gpus_per_node)
    THEN "AssertionError"
    ELSE IF /\ ~ (Sum(m.mapping) < m.n_gpus_per_node)
            /\ ~ (/\ Sum(m.mapping) % m.n_gpus_per_node = 0
                  /\ \A i \in 0 .. m.n_nodes - 1 :
                        RowSum(m.mapping, i) \in {m.n_gpus_per_node, 0})
    THEN "RuntimeError"
    ELSE IF ~ are_ones_contiguous(m.mapping)
    THEN "RuntimeError"
    ELSE "ok"

\* _is_valid_mapping with the per-row test of the whole-node branch left out
is_valid_mapping_any_rows(m) ==
    IF <<Rows(m.mapping), Cols(m.mapping)>> # <<m.n_nodes, m.n_gpus_per_node>>
    THEN "RuntimeError"
    ELSE IF ~ \A c \in Cells(m.mapping) : m.mapping[c[1]][c[2]] \in {0, 1}
    THEN "RuntimeError"
    ELSE IF ~ IsPow2(m.n_gpus_per_node)
    THEN "AssertionError"
    ELSE IF /\ Sum(m.mapping) < m.n_gpus_per_node
            /\ Sum(m.mapping) \notin one_node_valid_gpus(m.n_gpus_per_node)
    THEN "RuntimeError"
    ELSE IF /\ ~ (Sum(m.mapping) < m.n_gpus_per_node)
            /\ ~ (Sum(m.mapping) % m.n_gpus_per_node = 0)
    THEN "RuntimeError"
    ELSE IF ~ are_ones_contiguous(m.mapping)
    THEN "RuntimeError"
    ELSE "ok"

\* _is_valid_mapping with the final contiguity test left out
is_valid_mapping_no_contiguity(m) ==
    IF <<Rows(m.mapping), Cols(m.mapping)>> # <<m.n_nodes, m.n_gpus_per_node>>
    THEN "RuntimeError"
    ELSE IF ~ \A c \in Cells(m.mapping) : m.mapping[c[1]][c[2]] \in {0, 1}
    THEN "RuntimeError"
    ELSE IF ~ IsPow2(m.n_gpus_per_node)
    THEN "AssertionError"
    ELSE IF /\ Sum(m.mapping) < m.n_gpus_per_node
            /\ Sum(m.mapping) \notin one_node_valid_gpus(m.n_gpus_per_node)
    THEN "RuntimeError"
    ELSE IF /\ ~ (Sum(m.mapping) < m.n_gpus_per_node)
            /\ ~ (/\ Sum(m.mapping) % m.n_gpus_per_node = 0
                  /\ \A i \in 0 .. m.n_nodes - 1 :
                        RowSum(m.mapping, i) \in {m.n_gpus_per_node, 0})
    THEN "RuntimeError"
    ELSE "ok"

\* _is_valid_mapping: "ok" when it returns True, else the exception it raises
_is_valid_mapping(m) ==
    IF <<Rows(m.mapping), Cols(m.mapping)>> # <<m.n_nodes, m.n_gpus_per_node>>
    THEN "RuntimeError"
    ELSE IF ~ \A c \in Cells(m.mapping) : m.mapping[c[1]][c[2]] \in {0, 1}
    THEN "RuntimeError"
    ELSE IF ~ IsPow2(m.n_gpus_per_node)
    THEN "AssertionError"
    ELSE IF /\ Sum(m.mapping) < m.n_gpus_per_node
            /\ Sum(m.mapping) \notin one_node_valid_gpus(m.n_gpus_per_node)
    THEN "RuntimeError"
    ELSE IF /\ ~ (Sum(m.mapping) < m.n_gpus_per_node)
            /\ ~ (/\ Sum(m.mapping) % m.n_gpus_per_node = 0
                  /\ \A i \in 0 .. m.n_nodes - 1 :
                        RowSum(m.mapping, i) \in {m.n_gpus_per_node, 0})
    THEN "RuntimeError"
    ELSE IF ~ are_ones_contiguous(m.mapping)
    THEN "RuntimeError"
    ELSE "ok"

\* the default of the field gpu_memory_capacity, 80 * (1024**3) bytes, in GiB
DefaultGpuMemoryCapacity == 80

\* an ndarray is indexed from 0 and has a shape; a nested list (indexed from 1
\* here) has no attribute "shape"
IsNdarray(mapping) == 0 \in DOMAIN mapping

\* the dataclass constructor with every field given, followed by __post_init__;
\* a mapping that is not an ndarray fails at the first mapping.shape, in
\* device_mesh_name_from_mapping or in _is_valid_mapping
DeviceMesh_init(n_nodes, n_gpus_per_node, mapping, global_mesh_name, name, gpu_memory_capacity) ==
    LET g == IF global_mesh_name = NoneGlobal
             THEN DefaultGlobalName(n_nodes) ELSE global_mesh_name
        derived == IF name = NoneName
                   THEN device_mesh_name_from_mapping(g, mapping)
                   ELSE [status |-> "ok", name |-> name]
        m == [n_nodes |-> n_nodes, n_gpus_per_node |-> n_gpus_per_node,
              mapping |-> mapping, global_mesh_name |-> g, name |-> derived.name,
              gpu_memory_capacity |-> gpu_memory_capacity]
    IN IF ~ IsNdarray(mapping) THEN [status |-> "AttributeError", mesh |-> NoMesh]
       ELSE IF derived.status # "ok" THEN [status |-> derived.status, mesh |-> NoMesh]
       ELSE IF _is_valid_mapping(m) # "ok"
       THEN [status |-> _is_valid_mapping(m), mesh |-> NoMesh]
       ELSE [status |-> "ok", mesh |-> m]

\* DeviceMesh(...) as every caller in the module writes it: gpu_memory_capacity
\* is left to its default
DeviceMesh(n_nodes, n_gpus_per_node, mapping, global_mesh_name, name) ==
    DeviceMesh_init(n_nodes, n_gpus_per_node, mapping, global_mesh_name, name,
                    DefaultGpuMemoryCapacity)

\* ------------------------------------------------------------------ inputs
Shapes(cells) ==
    {s \in (1 .. MaxNodes) \X GpuWidths : s[1] * s[2] <= cells}
Grids(cells) ==
    UNION {[0 .. s[1] - 1 -> [0 .. s[2] - 1 -> {0, 1}]] : s \in Shapes(cells)}
\* a partition other than the default one, "NODE[02-03]"
OtherGlobal == << <<2, 3>> >>
\* a name the caller passes instead of letting it be derived, "NODE02"
GivenName == [nodes |-> << <<2>> >>, colon |-> FALSE, gpus |-> << >>]

CtorArgs(cells) ==
    {x \in [n_nodes : 1 .. MaxNodes, n_gpus_per_node : GpuWidths,
            mapping : Grids(cells),
            global_mesh_name : {NoneGlobal, OtherGlobal},
            name : {NoneName, GivenName}] :
        /\ x.n_gpus_per_node = Cols(x.mapping)
        /\ x.n_nodes \in {Rows(x.mapping), Rows(x.mapping) + 1}}

Make(x) == DeviceMesh(x.n_nodes, x.n_gpus_per_node, x.mapping, x.global_mesh_name, x.name)

\* the meshes the constructor accepts
Constructed(cells) == {Make(x).mesh : x \in {y \in CtorArgs(cells) : Make(y).status = "ok"}}

IsMesh(m) == m.n_nodes > 0

\* ------------------------------------------------------------------- split
RECURSIVE SplitLoop_off_by_one(_, _, _, _)
\* the loop of split with "while t > 1"
SplitLoop_off_by_one(sub_mapping2, t, cnt, n_gpus_per_node) ==
    IF t > 1
    THEN LET i == cnt \div n_gpus_per_node
             j == cnt % n_gpus_per_node
         IN IF sub_mapping2[i][j] = 0
            THEN SplitLoop_off_by_one(sub_mapping2, t, cnt + 1, n_gpus_per_node)
            ELSE SplitLoop_off_by_one([sub_mapping2 EXCEPT ![i][j] = 0], t - 1, cnt,
                                      n_gpus_per_node)
    ELSE sub_mapping2

RECURSIVE SplitLoop_from_end(_, _, _, _)
\* the loop of split walking the grid from its last cell backwards
SplitLoop_from_end(sub_mapping2, t, cnt, n_gpus_per_node) ==
    IF t > 0
    THEN LET last == Rows(sub_mapping2) * n_gpus_per_node - 1 - cnt
             i == last \div n_gpus_per_node
             j == last % n_gpus_per_node
         IN IF sub_mapping2[i][j] = 0
            THEN SplitLoop_from_end(sub_mapping2, t, cnt + 1, n_gpus_per_node)
            ELSE SplitLoop_from_end([sub_mapping2 EXCEPT ![i][j] = 0], t - 1, cnt,
                                    n_gpus_per_node)
    ELSE sub_mapping2

RECURSIVE SplitLoop(_, _, _, _)
\* the while loop of split: clears the first t claimed cells of sub_mapping2
SplitLoop(sub_mapping2, t, cnt, n_gpus_per_node) ==
    IF t > 0
    THEN LET i == cnt \div n_gpus_per_node
             j == cnt % n_gpus_per_node
         IN IF sub_mapping2[i][j] = 0
            THEN SplitLoop(sub_mapping2, t, cnt + 1, n_gpus_per_node)
            ELSE SplitLoop([sub_mapping2 EXCEPT ![i][j] = 0], t - 1, cnt, n_gpus_per_node)
    ELSE sub_mapping2

split(self, split_n_gpus) ==
    LET fail(e) == [status |-> e, d1 |-> NoMesh, d2 |-> NoMesh]
        sub_mapping2 == SplitLoop(self.mapping, split_n_gpus, 0, self.n_gpus_per_node)
        sub_mapping1 == [i \in DOMAIN self.mapping |-> [j \in DOMAIN self.mapping[i] |->
                            self.mapping[i][j] - sub_mapping2[i][j]]]
        name1 == device_mesh_name_from_mapping(self.global_mesh_name, sub_mapping1)
        d1 == DeviceMesh(self.n_nodes, self.n_gpus_per_node, sub_mapping1,
                         self.global_mesh_name, name1.name)
        name2 == device_mesh_name_from_mapping(self.global_mesh_name, sub_mapping2)
        d2 == DeviceMesh(self.n_nodes, self.n_gpus_per_node, sub_mapping2,
                         self.global_mesh_name, name2.name)
    IN IF _is_valid_mapping(self) # "ok" THEN fail(_is_valid_mapping(self))
       ELSE IF ~ (Sum(self.mapping) > split_n_gpus) THEN fail("AssertionError")
       ELSE IF name1.status # "ok" THEN fail(name1.status)
       ELSE IF d1.status # "ok" THEN fail(d1.status)
       ELSE IF name2.status # "ok" THEN fail(name2.status)
       ELSE IF d2.status # "ok" THEN fail(d2.status)
       ELSE IF _is_valid_mapping(d1.mesh) # "ok" THEN fail("AssertionError")
       ELSE IF _is_valid_mapping(d2.mesh) # "ok" THEN fail("AssertionError")
       ELSE [status |-> "ok", d1 |-> d1.mesh, d2 |-> d2.mesh]

\* a mutation of split_self: the loop clears the cells of self.mapping itself
split_self_in_place(self, split_n_gpus) ==
    IF _is_valid_mapping(self) = "ok" /\ Sum(self.mapping) > split_n_gpus
    THEN [self EXCEPT !.mapping = SplitLoop(self.mapping, split_n_gpus, 0,
                                            self.n_gpus_per_node)]
    ELSE self

\* self after a call of split: the loop writes to sub_mapping2, which is
\* self.mapping.copy(), and nothing else is assigned
split_self(self, split_n_gpus) == self

\* ------------------------------------------------------------ comparisons
\* x & y on the 0/1 cells of a validated mapping
BitAnd(x, y) == IF x = 1 /\ y = 1 THEN 1 ELSE 0

\* __op_assertion without the global_mesh_name assertion
op_assertion_shape_only(self, other) ==
    IF self.n_nodes # other.n_nodes THEN "AssertionError"
    ELSE IF self.n_gpus_per_node # other.n_gpus_per_node THEN "AssertionError"
    ELSE "ok"

__op_assertion(self, other) ==
    IF ~ (self.global_mesh_name = NoneGlobal
          \/ self.global_mesh_name = other.global_mesh_name)
    THEN "AssertionError"
    ELSE IF self.n_nodes # other.n_nodes THEN "AssertionError"
    ELSE IF self.n_gpus_per_node # other.n_gpus_per_node THEN "AssertionError"
    ELSE "ok"

\* overlap with np.all in place of np.any
overlap_all(self, other) ==
    IF __op_assertion(self, other) # "ok"
    THEN [status |-> __op_assertion(self, other), value |-> FALSE]
    ELSE [status |-> "ok",
          value |-> \A c \in Cells(self.mapping) :
                       BitAnd(self.mapping[c[1]][c[2]], other.mapping[c[1]][c[2]]) # 0]

\* np.any(self.mapping & other.mapping)
overlap(self, other) ==
    IF __op_assertion(self, other) # "ok"
    THEN [status |-> __op_assertion(self, other), value |-> FALSE]
    ELSE [status |-> "ok",
          value |-> \E c \in Cells(self.mapping) :
                       BitAnd(self.mapping[c[1]][c[2]], other.mapping[c[1]][c[2]]) # 0]

\* contain comparing the intersection with other.mapping
contain_other(self, other) ==
    IF __op_assertion(self, other) # "ok"
    THEN [status |-> __op_assertion(self, other), value |-> FALSE]
    ELSE [status |-> "ok",
          value |-> \A c \in Cells(self.mapping) :
                       BitAnd(self.mapping[c[1]][c[2]], other.mapping[c[1]][c[2]])
                         = other.mapping[c[1]][c[2]]]

\* np.all(self.mapping & other.mapping == self.mapping); & binds tighter than ==
contain(self, other) ==
    IF __op_assertion(self, other) # "ok"
    THEN [status |-> __op_assertion(self, other), value |-> FALSE]
    ELSE [status |-> "ok",
          value |-> \A c \in Cells(self.mapping) :
                       BitAnd(self.mapping[c[1]][c[2]], other.mapping[c[1]][c[2]])
                         = self.mapping[c[1]][c[2]]]

\* np.all(self.mapping & other.mapping == other.mapping)
contained_by(self, other) ==
    IF __op_assertion(self, other) # "ok"
    THEN [status |-> __op_assertion(self, other), value |-> FALSE]
    ELSE [status |-> "ok",
          value |-> \A c \in Cells(self.mapping) :
                       BitAnd(self.mapping[c[1]][c[2]], other.mapping[c[1]][c[2]])
                         = other.mapping[c[1]][c[2]]]

\* numpy broadcasting of two 2-D shapes: each axis equal, or 1 on one side
Broadcastable(x, y) ==
    /\ (Rows(x) = Rows(y) \/ Rows(x) = 1 \/ Rows(y) = 1)
    /\ (Cols(x) = Cols(y) \/ Cols(x) = 1 \/ Cols(y) = 1)
Max(p, q) == IF p >= q THEN p ELSE q
\* the cell of x that cell (i, j) of the broadcast result reads
BroadcastAt(x, i, j) ==
    x[IF Rows(x) = 1 THEN 0 ELSE i][IF Cols(x) = 1 THEN 0 ELSE j]

\* __eq__: np.all(self.mapping == other.mapping).  The arrays are broadcast
\* against each other; for shapes that do not broadcast, numpy before 1.25
\* yields False and later versions raise ValueError.
__eq__(self, other) ==
    IF ~ (self.global_mesh_name = NoneGlobal
          \/ self.global_mesh_name = other.global_mesh_name)
    THEN {[status |-> "AssertionError", value |-> FALSE]}
    ELSE IF Broadcastable(self.mapping, other.mapping)
    THEN {[status |-> "ok",
           value |-> \A i \in 0 .. Max(Rows(self.mapping), Rows(other.mapping)) - 1,
                        j \in 0 .. Max(Cols(self.mapping), Cols(other.mapping)) - 1 :
                        BroadcastAt(self.mapping, i, j) = BroadcastAt(other.mapping, i, j)]}
    ELSE {[status |-> "ok", value |-> FALSE],
          [status |-> "ValueError", value |-> FALSE]}

\* ---------------------------------------------------------- construction
Init == a = NoMesh /\ b = NoMesh /\ res = Idle /\ NoFrequencyControl

\* one constructor call per run, on any arguments; a call that raises leaves no mesh
Construct ==
    /\ res.op = "none"
    /\ \E x \in CtorArgs(MaxCells) :
          /\ a' = Make(x).mesh
          /\ res' = [op |-> "construct", status |-> Make(x).status, args |-> x]
    /\ UNCHANGED <<b, ctl>>

NextConstruct == Construct

SpecConstruct == Init /\ [][NextConstruct]_vars

\* ------------------------------------------------------ split of a mesh
SplitSizes == -1 .. MaxCells

InitSplit == a \in Constructed(MaxCells) /\ b = NoMesh /\ res = Idle /\ NoFrequencyControl

Split ==
    /\ \E k \in SplitSizes :
          /\ res' = [op |-> "split", status |-> split(a, k).status, k |-> k,
                     d1 |-> split(a, k).d1, d2 |-> split(a, k).d2]
          /\ a' = split_self(a, k)
    /\ UNCHANGED <<b, ctl>>

NextSplit == Split

SpecSplit == InitSplit /\ [][NextSplit]_vars

\* ------------------------------------------------- operations on two meshes
InitOps == a \in Constructed(MaxPairCells) /\ b \in Constructed(MaxPairCells) /\ res = Idle /\ NoFrequencyControl

Overlap ==
    /\ res' = [op |-> "overlap", status |-> overlap(a, b).status, value |-> overlap(a, b).value]
    /\ UNCHANGED <<a, b, ctl>>

Contain ==
    /\ res' = [op |-> "contain", status |-> contain(a, b).status, value |-> contain(a, b).value]
    /\ UNCHANGED <<a, b, ctl>>

ContainedBy ==
    /\ res' = [op |-> "contained_by", status |-> contained_by(a, b).status,
               value |-> contained_by(a, b).value]
    /\ UNCHANGED <<a, b, ctl>>

Eq ==
    /\ \E r \in __eq__(a, b) :
          res' = [op |-> "eq", status |-> r.status, value |-> r.value]
    /\ UNCHANGED <<a, b, ctl>>

NextOps == Overlap \/ Contain \/ ContainedBy \/ Eq

SpecOps == InitOps /\ [][NextOps]_vars

\* ------------------------------------------------------- sub device meshes
Min(p, q) == IF p <= q THEN p ELSE q

\* np.zeros(...) with sub_mapping[row, start : start + n_gpus] = 1 (the slice
\* stops at the end of the row)
RowSlice(self, row, start, n_gpus) ==
    [i \in 0 .. self.n_nodes - 1 |-> [j \in 0 .. self.n_gpus_per_node - 1 |->
        IF i = row /\ start <= j /\ j < start + n_gpus THEN 1 ELSE 0]]

\* np.zeros(...) with sub_mapping[start : start + n_rows, :] = 1
RowBlock(self, start, n_rows) ==
    [i \in 0 .. self.n_nodes - 1 |-> [j \in 0 .. self.n_gpus_per_node - 1 |->
        IF start <= i /\ i < start + n_rows THEN 1 ELSE 0]]

\* for start in range(np.min(this_cols), n_gpus_per_node, n_gpus)
StartLoop(self, row, n_gpus) ==
    LET first == CHOOSE j \in {c[2] : c \in {d \in Ones(self.mapping) : d[1] = row}} :
                    \A c \in {d \in Ones(self.mapping) : d[1] = row} : j <= c[2]
        count == (self.n_gpus_per_node - first + n_gpus - 1) \div n_gpus
    IN [k \in 1 .. count |-> RowSlice(self, row, first + (k - 1) * n_gpus, n_gpus)]

RECURSIVE WidthLoop(_, _, _)
\* while n_gpus < min(n_gpus_per_node, mapping.sum()): ...; n_gpus *= 2
WidthLoop(self, row, n_gpus) ==
    IF n_gpus < Min(self.n_gpus_per_node, Sum(self.mapping))
    THEN StartLoop(self, row, n_gpus) \o WidthLoop(self, row, 2 * n_gpus)
    ELSE << >>

RECURSIVE RowLoop(_, _, _)
\* for row in unique_rows, from the k-th one on
RowLoop(self, unique_rows, min_n_gpus) ==
    IF unique_rows = << >> THEN << >>
    ELSE WidthLoop(self, Head(unique_rows), min_n_gpus)
            \o RowLoop(self, Tail(unique_rows), min_n_gpus)

RECURSIVE BlockLoop(_, _, _)
\* for n_rows in range(n_rows, len + 1): for start in range(0, len - n_rows + 1)
BlockLoop(self, len, n_rows) ==
    IF n_rows > len THEN << >>
    ELSE [k \in 1 .. (len - n_rows + 1) |-> RowBlock(self, k - 1, n_rows)]
            \o BlockLoop(self, len, n_rows + 1)

\* the DeviceMesh(...) of the closing list comprehension
SubMesh(self, sub_mapping) ==
    LET nm == device_mesh_name_from_mapping(self.global_mesh_name, sub_mapping)
    IN IF nm.status # "ok" THEN [status |-> nm.status, mesh |-> NoMesh]
       ELSE DeviceMesh(self.n_nodes, self.n_gpus_per_node, sub_mapping,
                       self.global_mesh_name, nm.name)

sub_device_meshes(self, min_n_gpus) ==
    LET unique_rows == SortedSeq({c[1] : c \in Ones(self.mapping)})
        sub_mappings == RowLoop(self, unique_rows, min_n_gpus)
                           \o BlockLoop(self, Len(unique_rows), 1)
        made == [k \in 1 .. Len(sub_mappings) |-> SubMesh(self, sub_mappings[k])]
        bad == {k \in 1 .. Len(made) : made[k].status # "ok"}
        firstBad == CHOOSE k \in bad : \A l \in bad : k <= l
    IN IF unique_rows # << >> /\ min_n_gpus = 0
       THEN [status |-> "ZeroDivisionError", value |-> << >>]
       ELSE IF /\ unique_rows # << >>
               /\ ~ (\/ self.n_gpus_per_node % min_n_gpus = 0
                     \/ min_n_gpus % self.n_gpus_per_node = 0)
       THEN [status |-> "AssertionError", value |-> << >>]
       ELSE IF bad # {}
       THEN [status |-> made[firstBad].status, value |-> << >>]
       ELSE [status |-> "ok", value |-> [k \in 1 .. Len(made) |-> made[k].mesh]]

\* ------------------------------------------ meshes of up to MaxMeshNodes nodes
MaxMeshNodes == 4

\* the cells lo .. hi of the flattened grid
RunGrid(n, g, lo, hi) ==
    [i \in 0 .. n - 1 |-> [j \in 0 .. g - 1 |->
        IF lo <= i * g + j /\ i * g + j <= hi THEN 1 ELSE 0]]

MeshArgs ==
    UNION {{[n_nodes |-> s[1], n_gpus_per_node |-> s[2],
             mapping |-> RunGrid(s[1], s[2], r[1], r[2]),
             global_mesh_name |-> x[1], name |-> x[2]] :
               r \in {q \in (0 .. s[1] * s[2] - 1) \X (0 .. s[1] * s[2] - 1) : q[1] <= q[2]},
               x \in {NoneGlobal, OtherGlobal} \X {NoneName, GivenName}} :
           s \in (1 .. MaxMeshNodes) \X {1, 2, 4, 8}}

\* the meshes the constructor accepts among them
Meshes == {Make(x).mesh : x \in {y \in MeshArgs : Make(y).status = "ok"}}

\* min_n_gpus values tried (the default is 4)
MinGpus == {0, 1, 2, 3, 4, 8, 16}

InitSub == a \in Meshes /\ b = NoMesh /\ res = Idle /\ NoFrequencyControl

\* one call per run, on any accepted mesh
SubDeviceMeshes ==
    /\ res.op = "none"
    /\ \E n \in MinGpus :
          LET r == sub_device_meshes(a, n)
          IN res' = [op |-> "sub_device_meshes", status |-> r.status,
                     min_n_gpus |-> n, value |-> r.value]
    /\ UNCHANGED <<a, b, ctl>>

NextSub == SubDeviceMeshes

SpecSub == InitSub /\ [][NextSub]_vars

\* ------------------------------------------------------ to_dict, from_dict
\* ndarray.tolist(): the nested list of the rows
tolist(mapping) ==
    [i \in 1 .. Rows(mapping) |-> [j \in 1 .. Cols(mapping) |-> mapping[i - 1][j - 1]]]

\* np.array of a nested list
np_array(rows) ==
    [i \in 0 .. Len(rows) - 1 |-> [j \in 0 .. Len(rows[1]) - 1 |-> rows[i + 1][j + 1]]]

to_dict(self) ==
    [n_nodes |-> self.n_nodes, n_gpus_per_node |-> self.n_gpus_per_node,
     mapping |-> tolist(self.mapping),
     global_mesh_name |-> self.global_mesh_name, name |-> self.name,
     gpu_memory_capacity |-> self.gpu_memory_capacity]

\* DeviceMesh(**d) runs __post_init__ on d["mapping"] as it is; the mapping is
\* made an ndarray only afterwards
from_dict(d) ==
    LET device_mesh == DeviceMesh_init(d.n_nodes, d.n_gpus_per_node, d.mapping,
                                       d.global_mesh_name, d.name,
                                       d.gpu_memory_capacity)
    IN IF device_mesh.status # "ok" THEN device_mesh
       ELSE [status |-> "ok",
             mesh |-> [device_mesh.mesh EXCEPT !.mapping = np_array(d.mapping)]]

\* ------------------------------------------------ find_parallel_strategies
\* ParallelismConfig(num_pp, num_mp, num_dp): the three degrees, positionally
ParallelismConfig(pipeline_parallel_size, model_parallel_size, data_parallel_size) ==
    [pipeline_parallel_size |-> pipeline_parallel_size,
     model_parallel_size |-> model_parallel_size,
     data_parallel_size |-> data_parallel_size]

\* a mutation of valid: the width n_gpus // num_pp must be a multiple of 8
valid_multiple_of_8_only(n_gpus, num_mp, num_pp) ==
    /\ (n_gpus \div num_pp) % 8 = 0
    /\ (n_gpus \div num_mp) % num_pp = 0

\* the test "valid" of the inner loop
valid(n_gpus, num_mp, num_pp) ==
    /\ \/ (n_gpus \div num_pp) \in {1, 2, 4, 8}
       \/ (n_gpus \div num_pp) % 8 = 0
    /\ (n_gpus \div num_mp) % num_pp = 0

\* a mutation of appended: data_parallel_size is not divided by num_pp
appended_undivided(n_gpus, num_mp, num_pp) ==
    ParallelismConfig(num_pp, num_mp, n_gpus \div num_mp)

\* the ParallelismConfig appended for num_mp, num_pp
appended(n_gpus, num_mp, num_pp) ==
    ParallelismConfig(num_pp, num_mp, (n_gpus \div num_mp) \div num_pp)

\* while num_pp <= num_dp_pp
RECURSIVE PpLoop(_, _, _)
PpLoop(n_gpus, num_mp, num_pp) ==
    IF num_pp > n_gpus \div num_mp THEN << >>
    ELSE (IF valid(n_gpus, num_mp, num_pp)
          THEN <<appended(n_gpus, num_mp, num_pp)>> ELSE << >>)
         \o PpLoop(n_gpus, num_mp, num_pp + 1)

\* for num_mp in [1, 2, 4, 8], from position k of that list: the assertion
\* stops the whole call
RECURSIVE MpLoop(_, _)
MpLoop(n_gpus, k) ==
    IF k > 4 THEN [status |-> "ok", value |-> << >>]
    ELSE LET num_mp == <<1, 2, 4, 8>>[k]
             rest == MpLoop(n_gpus, k + 1)
         IN IF ~ (n_gpus >= num_mp) THEN rest
            ELSE IF n_gpus % num_mp # 0
            THEN [status |-> "AssertionError", value |-> << >>]
            ELSE IF rest.status # "ok" THEN rest
            ELSE [status |-> "ok", value |-> PpLoop(n_gpus, num_mp, 1) \o rest.value]

find_parallel_strategies(device_mesh) == MpLoop(Sum(device_mesh.mapping), 1)

\* ------------------------------------------------------------ RPCAllocation
\* a mutation of RPCAllocation: no check of the world size
RPCAllocation_unchecked(rpc, device_mesh, parallel) ==
    [status |-> "ok",
     value |-> [rpc |-> rpc, device_mesh |-> device_mesh, parallel |-> parallel]]

\* RPCAllocation(...): the dataclass constructor followed by __post_init__
RPCAllocation(rpc, device_mesh, parallel) ==
    LET world_size == parallel.model_parallel_size
                        * parallel.pipeline_parallel_size
                        * parallel.data_parallel_size
    IN IF world_size # Sum(device_mesh.mapping)
       THEN [status |-> "AssertionError", value |-> << >>]
       ELSE [status |-> "ok",
             value |-> [rpc |-> rpc, device_mesh |-> device_mesh, parallel |-> parallel]]

\* ------------------------------- strategies, allocations and records of a mesh
\* an MFCDef, of which only the name is read
MFCDef(name) == [name |-> name]
\* the MFCDef of an allocation
Rpcs == {MFCDef("actor_gen"), MFCDef("actor_train")}
\* the degrees a caller passes
Degrees == {1, 2, 4}

InitAlloc == a \in Meshes /\ b = NoMesh /\ res = Idle /\ NoFrequencyControl

FindParallelStrategies ==
    /\ res.op = "none"
    /\ LET r == find_parallel_strategies(a)
       IN res' = [op |-> "find_parallel_strategies", status |-> r.status,
                  value |-> r.value]
    /\ UNCHANGED <<a, b, ctl>>

Allocate ==
    /\ res.op = "none"
    /\ \E rpc \in Rpcs, pp \in Degrees, mp \in Degrees, dp \in Degrees :
          LET r == RPCAllocation(rpc, a, ParallelismConfig(pp, mp, dp))
          IN res' = [op |-> "RPCAllocation", status |-> r.status,
                     rpc |-> rpc, parallel |-> ParallelismConfig(pp, mp, dp),
                     value |-> r.value]
    /\ UNCHANGED <<a, b, ctl>>

ToDict ==
    /\ res.op = "none"
    /\ res' = [op |-> "to_dict", status |-> "ok", value |-> to_dict(a)]
    /\ UNCHANGED <<a, b, ctl>>

\* the record comes back: b is the mesh read from it
FromDict ==
    /\ res.op = "to_dict"
    /\ LET r == from_dict(res.value)
       IN /\ res' = [op |-> "from_dict", status |-> r.status, value |-> res.value]
          /\ b' = r.mesh
    /\ UNCHANGED <<a, ctl>>

\* RPCAllocation.to_dict: the rpc is stored by its name
RPCAllocation_to_dict(self) ==
    [rpc |-> self.rpc.name,
     device_mesh |-> to_dict(self.device_mesh),
     parallel |-> self.parallel]

\* RPCAllocation.from_dict: the arguments are evaluated in order, then the
\* constructor runs with the stored name as rpc
RPCAllocation_from_dict(d) ==
    LET device_mesh == from_dict(d.device_mesh)
    IN IF device_mesh.status # "ok"
       THEN [status |-> device_mesh.status, value |-> << >>]
       ELSE RPCAllocation(d.rpc, device_mesh.mesh,
                          ParallelismConfig(d.parallel.pipeline_parallel_size,
                                            d.parallel.model_parallel_size,
                                            d.parallel.data_parallel_size))

AllocationToDict ==
    /\ res.op = "RPCAllocation" /\ res.status = "ok"
    /\ res' = [op |-> "RPCAllocation.to_dict", status |-> "ok",
               self |-> res.value, value |-> RPCAllocation_to_dict(res.value)]
    /\ UNCHANGED <<a, b, ctl>>

AllocationFromDict ==
    /\ res.op = "RPCAllocation.to_dict"
    /\ LET r == RPCAllocation_from_dict(res.value)
       IN res' = [op |-> "RPCAllocation.from_dict", status |-> r.status,
                  self |-> res.self, d |-> res.value, value |-> r.value]
    /\ UNCHANGED <<a, b, ctl>>

NextAlloc ==
    \/ FindParallelStrategies \/ Allocate \/ ToDict \/ FromDict
    \/ AllocationToDict \/ AllocationFromDict

SpecAlloc == InitAlloc /\ [][NextAlloc]_vars

\* ----------------------------------------------- make_device_mesh_from_name
\* list.index: the 0-based position of the first occurrence
ListIndex(list, x) == (CHOOSE k \in 1 .. Len(list) : list[k] = x /\ \A l \in 1 .. k - 1 : list[l] # x) - 1

\* the column mapping[node_index, gpu_id] addresses: a negative index counts
\* from the end of the row
gpu_column(gpu_id, n_gpus_per_node) ==
    IF gpu_id < 0 THEN gpu_id + n_gpus_per_node ELSE gpu_id

make_device_mesh_from_name(global_mesh_name, name, n_gpus_per_node) ==
    LET fail(e) == [status |-> e, mesh |-> NoMesh]
        node_list == parse_nodelist(global_mesh_name)
        n_nodes == Len(node_list)
        gpu_ids == name.gpus
        node_names == parse_nodelist(name.nodes)
        known(x) == \E k \in 1 .. Len(node_list) : node_list[k] = x
        node_rows == {ListIndex(node_list, node_names[k]) : k \in 1 .. Len(node_names)}
        cols == {gpu_column(gpu_ids[k], n_gpus_per_node) : k \in 1 .. Len(gpu_ids)}
        whole == [i \in 0 .. n_nodes - 1 |-> [j \in 0 .. n_gpus_per_node - 1 |->
                    IF i \in node_rows THEN 1 ELSE 0]]
        part == [i \in 0 .. n_nodes - 1 |-> [j \in 0 .. n_gpus_per_node - 1 |->
                    IF i = ListIndex(node_list, node_names[1]) /\ j \in cols
                    THEN 1 ELSE 0]]
    IN IF name.colon
       THEN IF gpu_ids = << >> THEN fail("ValueError")
            ELSE IF \E k \in 1 .. Len(gpu_ids) : ~ (gpu_ids[k] < n_gpus_per_node)
            THEN fail("AssertionError")
            ELSE IF Len(node_names) # 1 THEN fail("AssertionError")
            ELSE IF ~ known(node_names[1]) THEN fail("ValueError")
            ELSE IF \E k \in 1 .. Len(gpu_ids) : gpu_ids[k] < - n_gpus_per_node
            THEN fail("IndexError")
            ELSE DeviceMesh(n_nodes, n_gpus_per_node, part, global_mesh_name, name)
       ELSE IF \E k \in 1 .. Len(node_names) : ~ known(node_names[k])
            THEN fail("ValueError")
            ELSE DeviceMesh(n_nodes, n_gpus_per_node, whole, global_mesh_name, name)

\* ------------------------------------------------------ meshes made from names
\* node selections: "NODE01", "NODE02", "NODE05", "NODE[01-02]", "NODE[02-03]",
\* "NODE[01,03]"
NodeNames ==
    {<< <<1>> >>, << <<2>> >>, << <<5>> >>, << <<1, 2>> >>, << <<2, 3>> >>,
     << <<1>>, <<3>> >>}
\* GPU index lists after the colon, for rows of g GPUs
GpuLists(g) == {<<0>>, <<0, 1>>, <<-1>>, <<g>>, <<g - 1>>, <<0, g + 1>>}
\* the names a caller passes to make_device_mesh_from_name
Names(g) ==
    {[nodes |-> n, colon |-> FALSE, gpus |-> << >>] : n \in NodeNames}
      \cup {[nodes |-> x[1], colon |-> TRUE, gpus |-> x[2]] :
               x \in NodeNames \X GpuLists(g)}

InitName == a \in Meshes /\ b = NoMesh /\ res = Idle /\ NoFrequencyControl

\* the name of a's own footprint is read back
MakeFromOwnName ==
    /\ res.op = "none"
    /\ LET nm == device_mesh_name_from_mapping(a.global_mesh_name, a.mapping)
           r == make_device_mesh_from_name(a.global_mesh_name, nm.name,
                                           a.n_gpus_per_node)
       IN /\ nm.status = "ok"
          /\ res' = [op |-> "make_device_mesh_from_name", status |-> r.status,
                     name |-> nm.name, own |-> TRUE]
          /\ b' = r.mesh
    /\ UNCHANGED <<a, ctl>>

\* any name is read on a's cluster
MakeFromName ==
    /\ res.op = "none"
    /\ \E name \in Names(a.n_gpus_per_node) :
          LET r == make_device_mesh_from_name(a.global_mesh_name, name,
                                              a.n_gpus_per_node)
          IN /\ res' = [op |-> "make_device_mesh_from_name", status |-> r.status,
                        name |-> name, own |-> FALSE]
             /\ b' = r.mesh
    /\ UNCHANGED <<a, ctl>>

NextName == MakeFromOwnName \/ MakeFromName

SpecName == InitName /\ [][NextName]_vars

\* --------------------------------- every operation that takes existing meshes
\* cells of the meshes the operations are tried on together
MaxFrameCells == 2

InitFrame ==
    a \in Constructed(MaxFrameCells) /\ b \in Constructed(MaxFrameCells) /\ res = Idle /\ NoFrequencyControl

NextFrame ==
    \/ Split \/ SubDeviceMeshes
    \/ Overlap \/ Contain \/ ContainedBy \/ Eq
    \/ ToDict

SpecFrame == InitFrame /\ [][NextFrame]_vars

\* ------------------------------------- meshes of clusters of other GPU sizes
\* gpu_memory_capacity values a caller passes, in GiB: the default and 40
Capacities == {DefaultGpuMemoryCapacity, 40}

MakeSized(x, c) ==
    DeviceMesh_init(x.n_nodes, x.n_gpus_per_node, x.mapping, x.global_mesh_name,
                    x.name, c)

\* the meshes the constructor accepts, with either capacity
Sized(cells) ==
    {MakeSized(y[1], y[2]).mesh :
        y \in {z \in CtorArgs(cells) \X Capacities : MakeSized(z[1], z[2]).status = "ok"}}

InitSized == a \in Sized(MaxPairCells) /\ b = NoMesh /\ res = Idle /\ NoFrequencyControl

NextSized == Split \/ SubDeviceMeshes

SpecSized == InitSized /\ [][NextSized]_vars

\* --------------------------------------------------------- FrequencyControl
\* None, and a value that is not None
None == << >>
Some(x) == <<x>>
Val(o) == o[1]

\* check() calls made in one run by one thread
MaxCalls == 4
\* check() calls made in one run by NumThreads threads together
MaxThreadCalls == 3
\* the last second the clock reaches
MaxTime == 1
\* threads that call check() on the same FrequencyControl
NumThreads == 2

\* __init__: both datetime.now() give the time of construction; lock is the
\* thread that holds self.__lock, 0 when it is free
FrequencyControl(frequency_seconds, frequency_steps, initial_value) ==
    [frequency_seconds |-> frequency_seconds,
     frequency_steps |-> frequency_steps,
     start_time |-> 0, steps |-> 0, last_time |-> 0, last_steps |-> 0,
     interval_seconds |-> None, interval_steps |-> None,
     initial_value |-> initial_value, lock |-> 0]

\* a mutation of lock_acquirable: the lock never makes a thread wait
lock_acquirable_always(self) == TRUE

\* self.__lock can be taken when no thread holds it
lock_acquirable(self) == self.lock = 0

\* a mutation of check_decide: the step interval is not compared
check_decide_steps_ignored(self, now) ==
    IF self.initial_value
    THEN [self |-> [self EXCEPT !.last_time = now, !.last_steps = self.steps,
                                !.initial_value = FALSE],
          flag |-> TRUE]
    ELSE LET s1 == [self EXCEPT !.interval_seconds = Some(now - self.last_time),
                                !.interval_steps = Some(self.steps - self.last_steps)]
         IN IF self.frequency_steps = None /\ self.frequency_seconds = None
            THEN [self |-> s1, flag |-> FALSE]
            ELSE IF /\ self.frequency_seconds # None
                    /\ Val(s1.interval_seconds) < Val(self.frequency_seconds)
            THEN [self |-> s1, flag |-> FALSE]
            ELSE [self |-> [s1 EXCEPT !.last_time = now, !.last_steps = s1.steps],
                  flag |-> TRUE]

\* check() after "self.__steps += steps": the fields it leaves and the flag
\* it returns
check_decide(self, now) ==
    IF self.initial_value
    THEN [self |-> [self EXCEPT !.last_time = now, !.last_steps = self.steps,
                                !.initial_value = FALSE],
          flag |-> TRUE]
    ELSE LET s1 == [self EXCEPT !.interval_seconds = Some(now - self.last_time),
                                !.interval_steps = Some(self.steps - self.last_steps)]
         IN IF self.frequency_steps = None /\ self.frequency_seconds = None
            THEN [self |-> s1, flag |-> FALSE]
            ELSE IF /\ self.frequency_seconds # None
                    /\ Val(s1.interval_seconds) < Val(self.frequency_seconds)
            THEN [self |-> s1, flag |-> FALSE]
            ELSE IF /\ self.frequency_steps # None
                    /\ Val(s1.interval_steps) < Val(self.frequency_steps)
            THEN [self |-> s1, flag |-> FALSE]
            ELSE [self |-> [s1 EXCEPT !.last_time = now, !.last_steps = s1.steps],
                  flag |-> TRUE]

\* the arguments of the constructor and of check()
CtlArgs ==
    [frequency_seconds : {None, Some(1)},
     frequency_steps : {None, Some(1), Some(2), Some(3)},
     initial_value : BOOLEAN]
StepArgs == {0, 1, 2}

\* a thread outside check()
Outside == [pc |-> "outside", steps |-> 0, now |-> 0, tmp |-> 0, flag |-> FALSE]

\* calls begun so far
Begun == Len(hist.calls) + Cardinality({t \in DOMAIN thr : thr[t].pc # "outside"})

\* one thread, any arguments of the constructor
InitFreq ==
    /\ a = NoMesh /\ b = NoMesh /\ res = Idle
    /\ \E x \in CtlArgs :
          /\ fc = FrequencyControl(x.frequency_seconds, x.frequency_steps, x.initial_value)
          /\ hist = [args |-> x, budget |-> MaxCalls, calls |-> << >>]
    /\ thr = [t \in {1} |-> Outside]
    /\ clock = 0

\* NumThreads threads on a FrequencyControl that counts steps only
InitThreads ==
    /\ a = NoMesh /\ b = NoMesh /\ res = Idle
    /\ \E x \in {y \in CtlArgs : y.frequency_seconds = None} :
          /\ fc = FrequencyControl(x.frequency_seconds, x.frequency_steps, x.initial_value)
          /\ hist = [args |-> x, budget |-> MaxThreadCalls, calls |-> << >>]
    /\ thr = [t \in 1 .. NumThreads |-> Outside]
    /\ clock = 0

\* thread t calls check(steps)
Call(t) ==
    /\ thr[t].pc = "outside" /\ Begun < hist.budget
    /\ \E steps \in StepArgs :
          thr' = [thr EXCEPT ![t] = [Outside EXCEPT !.pc = "with", !.steps = steps]]
    /\ UNCHANGED <<a, b, res, fc, hist, clock>>

\* with self.__lock: t waits until the lock is free and takes it
Acquire(t) ==
    /\ thr[t].pc = "with" /\ lock_acquirable(fc)
    /\ fc' = [fc EXCEPT !.lock = t]
    /\ thr' = [thr EXCEPT ![t].pc = "now"]
    /\ UNCHANGED <<a, b, res, hist, clock>>

\* now = datetime.now(): time does not run backwards
Now(t) ==
    /\ thr[t].pc = "now"
    /\ \E n \in clock .. Min(clock + 1, MaxTime) :
          /\ clock' = n
          /\ thr' = [thr EXCEPT ![t].now = n, ![t].pc = "load"]
    /\ UNCHANGED <<a, b, res, fc, hist>>

\* self.__steps += steps, the read
Load(t) ==
    /\ thr[t].pc = "load"
    /\ thr' = [thr EXCEPT ![t].tmp = fc.steps, ![t].pc = "store"]
    /\ UNCHANGED <<a, b, res, fc, hist, clock>>

\* self.__steps += steps, the write
Store(t) ==
    /\ thr[t].pc = "store"
    /\ fc' = [fc EXCEPT !.steps = thr[t].tmp + thr[t].steps]
    /\ thr' = [thr EXCEPT ![t].pc = "decide"]
    /\ UNCHANGED <<a, b, res, hist, clock>>

\* the rest of the body, up to the return statement
Decide(t) ==
    /\ thr[t].pc = "decide"
    /\ LET r == check_decide(fc, thr[t].now)
       IN /\ fc' = r.self
          /\ thr' = [thr EXCEPT ![t].flag = r.flag, ![t].pc = "return"]
    /\ UNCHANGED <<a, b, res, hist, clock>>

\* the with block ends, the lock is released and the call returns
Return(t) ==
    /\ thr[t].pc = "return"
    /\ fc' = [fc EXCEPT !.lock = 0]
    /\ hist' = [hist EXCEPT !.calls = Append(@, [thread |-> t, steps |-> thr[t].steps,
                                                   flag |-> thr[t].flag])]
    /\ thr' = [thr EXCEPT ![t] = Outside]
    /\ UNCHANGED <<a, b, res, clock>>

NextCheck ==
    \E t \in DOMAIN thr :
        \/ Call(t) \/ Acquire(t) \/ Now(t) \/ Load(t)
        \/ Store(t) \/ Decide(t) \/ Return(t)

SpecFreq == InitFreq /\ [][NextCheck]_vars

SpecThreads == InitThreads /\ [][NextCheck]_vars

\* ============================================================== properties
\* the cells a mapping claims, and how many
Claimed(mp) == {c \in Cells(mp) : mp[c[1]][c[2]] # 0}
Total(mp) == Cardinality(Claimed(mp))
FlatSet(mp) == {FlatIndex(mp, c) : c \in Claimed(mp)}
PowerOfTwo(x) == x \in {1, 2, 4, 8, 16, 32, 64}
\* one unbroken run in row-major order: as many cells as the span from first to last
OneRun(mp) ==
    \/ FlatSet(mp) = {}
    \/ \E lo \in FlatSet(mp), hi \in FlatSet(mp) :
          /\ \A x \in FlatSet(mp) : lo <= x /\ x <= hi
          /\ hi - lo + 1 = Cardinality(FlatSet(mp))
FullOrEmptyRows(mp) ==
    \A i \in 0 .. Rows(mp) - 1 :
        Cardinality({c \in Claimed(mp) : c[1] = i}) \in {0, Cols(mp)}
\* the six invariants of a device mesh, for a mapping on n nodes of g GPUs
Legal(n, g, mp) ==
    /\ \A c \in Cells(mp) : mp[c[1]][c[2]] \in {0, 1}
    /\ Rows(mp) = n /\ Cols(mp) = g
    /\ PowerOfTwo(g)
    /\ Total(mp) < g => (PowerOfTwo(Total(mp)) /\ 2 * Total(mp) <= g)
    /\ Total(mp) >= g => (Total(mp) % g = 0 /\ FullOrEmptyRows(mp))
    /\ OneRun(mp)
\* the first k claimed cells of mp in row-major order, and the rest, as mappings
FirstHalf(mp, k) ==
    [i \in DOMAIN mp |-> [j \in DOMAIN mp[i] |->
        IF /\ <<i, j>> \in Claimed(mp)
           /\ Cardinality({x \in FlatSet(mp) : x < FlatIndex(mp, <<i, j>>)}) < k
        THEN 1 ELSE 0]]
SecondHalf(mp, k) ==
    [i \in DOMAIN mp |-> [j \in DOMAIN mp[i] |->
        IF /\ <<i, j>> \in Claimed(mp)
           /\ Cardinality({x \in FlatSet(mp) : x < FlatIndex(mp, <<i, j>>)}) >= k
        THEN 1 ELSE 0]]
Compatible(x, y) ==
    /\ x.global_mesh_name = y.global_mesh_name
    /\ x.n_nodes = y.n_nodes
    /\ x.n_gpus_per_node = y.n_gpus_per_node
SameCells(x, y) ==
    /\ Rows(x) = Rows(y) /\ Cols(x) = Cols(y)
    /\ \A c \in Cells(x) : x[c[1]][c[2]] = y[c[1]][c[2]]

\* C1: when split(k) returns (d1, d2), d1 claims exactly k GPUs, d2 claims
\* total - k GPUs, no GPU is claimed by both, and together they claim exactly
\* the GPUs of the mesh that was split.
C1_SplitPartitions ==
    (res.op = "split" /\ res.status = "ok") =>
        /\ Total(res.d1.mapping) = res.k
        /\ Total(res.d2.mapping) = Total(a.mapping) - res.k
        /\ Claimed(res.d1.mapping) \cap Claimed(res.d2.mapping) = {}
        /\ Claimed(res.d1.mapping) \cup Claimed(res.d2.mapping) = Claimed(a.mapping)
\* a mesh of two whole nodes split into its two nodes
C1_Witness ==
    /\ res.op = "split" /\ res.status = "ok"
    /\ a.n_gpus_per_node = 2 /\ Total(a.mapping) = 4 /\ res.k = 2

\* C2: split(k) returns a pair only when k is below the claimed count and both
\* halves satisfy every mesh invariant; when k >= the claimed count, or a half
\* (the first k claimed cells, or the rest) is not a legal mesh, split raises
\* and returns no mesh.
C2_SplitFailsFast ==
    res.op = "split" =>
        /\ res.status = "ok" =>
              /\ res.k < Total(a.mapping)
              /\ Legal(a.n_nodes, a.n_gpus_per_node, res.d1.mapping)
              /\ Legal(a.n_nodes, a.n_gpus_per_node, res.d2.mapping)
        /\ (\/ res.k >= Total(a.mapping)
            \/ ~ Legal(a.n_nodes, a.n_gpus_per_node, FirstHalf(a.mapping, res.k))
            \/ ~ Legal(a.n_nodes, a.n_gpus_per_node, SecondHalf(a.mapping, res.k)))
              => (res.status # "ok" /\ ~ IsMesh(res.d1) /\ ~ IsMesh(res.d2))
\* one node of 8 GPUs split into 3 and 5
C2_Witness ==
    /\ res.op = "split" /\ res.k = 3 /\ res.status # "ok"
    /\ a.n_nodes = 1 /\ a.n_gpus_per_node = 8 /\ Total(a.mapping) = 8

\* C3: a construction whose mapping claims fewer GPUs than n_gpus_per_node
\* succeeds only if the count is a power of two between 1 and
\* n_gpus_per_node / 2; with any other count it fails.
C3_SubNodeCount ==
    (/\ res.op = "construct"
     /\ Total(res.args.mapping) < res.args.n_gpus_per_node
     /\ res.status = "ok")
        => /\ PowerOfTwo(Total(res.args.mapping))
           /\ 1 <= Total(res.args.mapping)
           /\ 2 * Total(res.args.mapping) <= res.args.n_gpus_per_node
\* GPUs {0, 1, 2} of an 8-GPU node are refused
C3_Witness ==
    /\ res.op = "construct" /\ res.status # "ok"
    /\ res.args.n_nodes = 1 /\ res.args.n_gpus_per_node = 8
    /\ Rows(res.args.mapping) = 1
    /\ Claimed(res.args.mapping) = {<<0, 0>>, <<0, 1>>, <<0, 2>>}

\* C4: an accepted construction that claims at least n_gpus_per_node GPUs
\* claims a multiple of n_gpus_per_node, each node row fully claimed or fully
\* unclaimed; a partially claimed row in such a mapping makes it fail.
C4_WholeNodes ==
    (/\ res.op = "construct"
     /\ Total(res.args.mapping) >= res.args.n_gpus_per_node
     /\ res.status = "ok")
        => /\ Total(res.args.mapping) % res.args.n_gpus_per_node = 0
           /\ FullOrEmptyRows(res.args.mapping)
\* a contiguous run of 4 GPUs straddling two 4-GPU nodes is refused
C4_Witness ==
    /\ res.op = "construct" /\ res.status # "ok"
    /\ res.args.n_nodes = 2 /\ res.args.n_gpus_per_node = 4
    /\ Rows(res.args.mapping) = 2
    /\ Claimed(res.args.mapping) = {<<0, 2>>, <<0, 3>>, <<1, 0>>, <<1, 1>>}

\* C5: in every accepted construction the claimed cells form one contiguous
\* run in row-major order; nodes 0 and 2 claimed without node 1 is refused.
C5_Contiguous ==
    (res.op = "construct" /\ res.status = "ok") => OneRun(res.args.mapping)
\* 3 nodes, node 0 and node 2 fully claimed, node 1 unclaimed
C5_Witness ==
    /\ res.op = "construct" /\ res.status # "ok"
    /\ res.args.n_nodes = 3 /\ res.args.n_gpus_per_node = 2
    /\ Rows(res.args.mapping) = 3
    /\ Claimed(res.args.mapping) = {<<0, 0>>, <<0, 1>>, <<2, 0>>, <<2, 1>>}

\* C6: for compatible meshes, a.contain(b) is true exactly when every GPU
\* claimed by b is claimed by a, and a.contained_by(b) exactly when every GPU
\* claimed by a is claimed by b.
C6_ContainMeansSuperset ==
    /\ (res.op = "contain" /\ Compatible(a, b)) =>
          /\ res.status = "ok"
          /\ res.value <=> Claimed(b.mapping) \subseteq Claimed(a.mapping)
    /\ (res.op = "contained_by" /\ Compatible(a, b)) =>
          /\ res.status = "ok"
          /\ res.value <=> Claimed(a.mapping) \subseteq Claimed(b.mapping)

\* C7: for compatible meshes, a.contain(b) and b.contained_by(a) return the
\* same truth value.
C7_ContainAgreesWithContainedBy ==
    (res.op = "contain" /\ Compatible(a, b)) =>
        /\ res.status = "ok"
        /\ contained_by(b, a).status = "ok"
        /\ res.value = contained_by(b, a).value
\* two different compatible meshes, one inside the other
C7_Witness ==
    /\ res.op = "contain" /\ res.status = "ok" /\ Compatible(a, b)
    /\ Claimed(a.mapping) # Claimed(b.mapping)
    /\ Claimed(a.mapping) \subseteq Claimed(b.mapping)

\* C8: for compatible meshes, a.overlap(b) equals b.overlap(a) and is true
\* exactly when at least one GPU is claimed by both.
C8_OverlapSymmetric ==
    (res.op = "overlap" /\ Compatible(a, b)) =>
        /\ res.status = "ok"
        /\ overlap(b, a).status = "ok"
        /\ res.value = overlap(b, a).value
        /\ res.value <=> Claimed(a.mapping) \cap Claimed(b.mapping) # {}
\* two compatible meshes sharing some GPUs but not all
C8_Witness ==
    /\ res.op = "overlap" /\ res.status = "ok" /\ res.value /\ Compatible(a, b)
    /\ Claimed(a.mapping) # Claimed(b.mapping)

\* C9: overlap, contain and contained_by raise, and return no truth value,
\* whenever the two meshes differ in global_mesh_name, n_nodes or
\* n_gpus_per_node.
C9_IncompatibleRaises ==
    (res.op \in {"overlap", "contain", "contained_by"} /\ ~ Compatible(a, b))
        => res.status # "ok"
\* same global_mesh_name, different n_nodes
C9_Witness ==
    /\ res.op = "contain" /\ res.status # "ok"
    /\ a.global_mesh_name = b.global_mesh_name
    /\ a.n_nodes # b.n_nodes

\* C10: on two meshes with the same global_mesh_name, == returns true exactly
\* when the mappings are equal cell by cell; on two meshes whose
\* global_mesh_name differ it raises instead of returning false.
C10_EqualsIsCellwise ==
    res.op = "eq" =>
        IF a.global_mesh_name = b.global_mesh_name
        THEN (res.status = "ok" /\ res.value) <=> SameCells(a.mapping, b.mapping)
        ELSE res.status # "ok"

\* the rows on which a mapping claims cells, and the first claimed column
ClaimedRows(mp) == {c[1] : c \in Claimed(mp)}
FirstCol(mp) == CHOOSE j \in {c[2] : c \in Claimed(mp)} : \A c \in Claimed(mp) : j <= c[2]
SubReturned == res.op = "sub_device_meshes" /\ res.status = "ok"
ReturnedMappings == {res.value[k].mapping : k \in 1 .. Len(res.value)}
\* the w cells of node r from column start on, and the whole nodes p .. q
NodeSlice(m, r, start, w) ==
    [i \in 0 .. m.n_nodes - 1 |-> [j \in 0 .. m.n_gpus_per_node - 1 |->
        IF i = r /\ start <= j /\ j < start + w THEN 1 ELSE 0]]
NodeRun(m, p, q) ==
    [i \in 0 .. m.n_nodes - 1 |-> [j \in 0 .. m.n_gpus_per_node - 1 |->
        IF p <= i /\ i <= q THEN 1 ELSE 0]]

\* C11: every mesh sub_device_meshes returns is wholly contained in the mesh
\* it was called on: each GPU it claims is claimed by the parent.
C11_SubMeshesContained ==
    SubReturned =>
        \A k \in 1 .. Len(res.value) :
            Claimed(res.value[k].mapping) \subseteq Claimed(a.mapping)

\* C12: every returned sub-mesh that lies on one node and claims s GPUs,
\* s < n_gpus_per_node, starts at a GPU index that is a multiple of s.
C12_SubMeshesAligned ==
    SubReturned =>
        \A k \in 1 .. Len(res.value) :
            LET mp == res.value[k].mapping
            IN (Cardinality(ClaimedRows(mp)) = 1 /\ Total(mp) < a.n_gpus_per_node)
                  => FirstCol(mp) % Total(mp) = 0

\* C13: every returned sub-mesh claims at least min_n_gpus GPUs.
C13_SubMeshesAtLeastMin ==
    SubReturned =>
        \A k \in 1 .. Len(res.value) : Total(res.value[k].mapping) >= res.min_n_gpus

\* C14: no two returned sub-meshes have equal mappings.
C14_SubMeshesDistinct ==
    SubReturned =>
        \A k \in 1 .. Len(res.value), l \in 1 .. Len(res.value) :
            k # l => ~ SameCells(res.value[k].mapping, res.value[l].mapping)

\* C15: for a mesh of whole nodes, the result holds, for every claimed node
\* and every width w = min_n_gpus * 2^e below n_gpus_per_node, the sub-mesh of
\* that node at every offset that is a multiple of w, and every run of
\* consecutive claimed nodes; below one node it holds no 3-GPU sub-mesh and no
\* sub-mesh at an offset that is not a multiple of its width.
C15_SubMeshesComplete ==
    (SubReturned /\ Total(a.mapping) >= a.n_gpus_per_node) =>
        /\ \A r \in ClaimedRows(a.mapping), e \in 0 .. 3, start \in 0 .. a.n_gpus_per_node - 1 :
              LET w == res.min_n_gpus * 2 ^ e
              IN (w < a.n_gpus_per_node /\ start % w = 0)
                    => NodeSlice(a, r, start, w) \in ReturnedMappings
        /\ \A p \in ClaimedRows(a.mapping), q \in ClaimedRows(a.mapping) :
              p <= q => NodeRun(a, p, q) \in ReturnedMappings
        /\ \A mp \in ReturnedMappings :
              Total(mp) < a.n_gpus_per_node
                 => (Total(mp) # 3 /\ FirstCol(mp) % Total(mp) = 0)


\* ------------------------------------------------- strategies and allocations
StrategiesReturned == res.op = "find_parallel_strategies" /\ res.status = "ok"
\* the degrees of a ParallelismConfig as (pipeline, model_parallel, data_parallel)
Triple(p) == <<p.pipeline_parallel_size, p.model_parallel_size, p.data_parallel_size>>
ReturnedTriples == {Triple(res.value[k]) : k \in 1 .. Len(res.value)}
\* the triples the constraints of the search admit for n devices
AdmittedTriples(n) ==
    {<<t[1], t[2], n \div (t[1] * t[2])>> :
        t \in {u \in (1 .. n) \X {1, 2, 4, 8} :
                  /\ u[2] <= n
                  /\ n % u[2] = 0
                  /\ u[1] <= n \div u[2]
                  /\ (n \div u[2]) % u[1] = 0
                  /\ \/ (n \div u[1]) \in {1, 2, 4, 8}
                     \/ (n \div u[1]) % 8 = 0}}

\* C16: for the claimed count n of any valid mesh the search returns without
\* error, and returns exactly the triples with model_parallel in {1,2,4,8},
\* model_parallel <= n dividing n, pipeline in 1 .. n / model_parallel dividing
\* n / model_parallel, data_parallel = n / (pipeline * model_parallel) and
\* n / pipeline in {1,2,4,8} or a multiple of 8, in ascending model_parallel
\* and then ascending pipeline.
C16_StrategiesExact ==
    res.op = "find_parallel_strategies" =>
        /\ res.status = "ok"
        /\ ReturnedTriples = AdmittedTriples(Total(a.mapping))
        /\ \A i \in 1 .. Len(res.value), j \in 1 .. Len(res.value) :
              i < j =>
                \/ Triple(res.value[i])[2] < Triple(res.value[j])[2]
                \/ /\ Triple(res.value[i])[2] = Triple(res.value[j])[2]
                   /\ Triple(res.value[i])[1] < Triple(res.value[j])[1]

\* C17: every triple the search returns for n devices has
\* pipeline * model_parallel * data_parallel = n, all three degrees positive.
C17_ProductIsCount ==
    StrategiesReturned =>
        \A t \in ReturnedTriples :
            /\ t[1] * t[2] * t[3] = Total(a.mapping)
            /\ t[1] >= 1 /\ t[2] >= 1 /\ t[3] >= 1

\* a search on 16 devices that returned triples with pipeline above 1
C17_Witness ==
    /\ StrategiesReturned
    /\ Total(a.mapping) = 16
    /\ \E t \in ReturnedTriples : t[1] > 1 /\ t[2] > 1 /\ t[3] > 1

\* C18: for n = 8 the result includes (1,1,8), (1,8,1), (1,2,4), (1,4,2),
\* (2,1,4) and (8,1,1).
C18_EightDevices ==
    (res.op = "find_parallel_strategies" /\ Total(a.mapping) = 8) =>
        /\ res.status = "ok"
        /\ {<<1, 1, 8>>, <<1, 8, 1>>, <<1, 2, 4>>, <<1, 4, 2>>, <<2, 1, 4>>, <<8, 1, 1>>}
              \subseteq ReturnedTriples

\* a search on the 8 devices of one whole node
C18_Witness ==
    /\ res.op = "find_parallel_strategies"
    /\ Total(a.mapping) = 8
    /\ a.n_gpus_per_node = 8
    /\ Len(res.value) > 0

\* C19: constructing an RPCAllocation succeeds exactly when pipeline *
\* model_parallel * data_parallel equals the number of GPUs its mesh claims,
\* and raises otherwise.
C19_AllocationMatches ==
    res.op = "RPCAllocation" =>
        LET t == Triple(res.parallel)
        IN /\ (res.status = "ok") <=> (t[1] * t[2] * t[3] = Total(a.mapping))
           /\ res.status \in {"ok", "AssertionError"}
           /\ res.status = "ok" =>
                 /\ res.value.device_mesh = a
                 /\ res.value.parallel = res.parallel

\* a mesh of 16 claimed GPUs with degrees (2,2,2) is refused
C19_Witness ==
    /\ res.op = "RPCAllocation"
    /\ Total(a.mapping) = 16
    /\ Triple(res.parallel) = <<2, 2, 2>>
    /\ res.status = "AssertionError"

\* C20: reading back the record to_dict produced for a valid mesh succeeds and
\* gives a mesh with the same n_nodes, n_gpus_per_node, mapping,
\* global_mesh_name, name and gpu_memory_capacity.
C20_DictRoundTrip ==
    res.op = "from_dict" =>
        /\ res.status = "ok"
        /\ b.n_nodes = a.n_nodes
        /\ b.n_gpus_per_node = a.n_gpus_per_node
        /\ b.mapping = a.mapping
        /\ b.global_mesh_name = a.global_mesh_name
        /\ b.name = a.name
        /\ b.gpu_memory_capacity = a.gpu_memory_capacity

\* C21: reading back the record to_dict produced for a valid RPCAllocation
\* succeeds and gives an allocation with the same rpc, the same device mesh
\* and the same parallel degrees.
C21_AllocationRoundTrip ==
    res.op = "RPCAllocation.from_dict" =>
        /\ res.status = "ok"
        /\ res.value.rpc = res.self.rpc
        /\ res.value.device_mesh = res.self.device_mesh
        /\ res.value.parallel = res.self.parallel

\* ------------------------------------------------------------------- names
\* the name device_mesh_name_from_mapping gives a mesh's own fields
OwnName(m) == device_mesh_name_from_mapping(m.global_mesh_name, m.mapping).name

\* C22: make_device_mesh_from_name inverts device_mesh_name_from_mapping: on
\* the name derived from a valid mesh's global_mesh_name and mapping it
\* succeeds and gives a mesh with that mapping.
C22_NameRoundTrip ==
    (res.op = "make_device_mesh_from_name" /\ res.own) =>
        /\ res.status = "ok"
        /\ b.mapping = a.mapping

\* the node indices a node list names, as a set
NodeSet(nodes) == {parse_nodelist(nodes)[k] : k \in 1 .. Len(parse_nodelist(nodes))}

\* C23: make_device_mesh_from_name raises, and gives no mesh, whenever the
\* name references a node that is not in the node list of global_mesh_name or
\* lists a GPU index outside 0 .. n_gpus_per_node - 1.
C23_BadNameRaises ==
    (/\ res.op = "make_device_mesh_from_name"
     /\ \/ ~ (NodeSet(res.name.nodes) \subseteq NodeSet(a.global_mesh_name))
        \/ \E k \in 1 .. Len(res.name.gpus) :
              res.name.gpus[k] \notin 0 .. a.n_gpus_per_node - 1)
    => (res.status # "ok" /\ b = NoMesh)

\* C24: every DeviceMesh value, however obtained, has the name
\* device_mesh_name_from_mapping gives its own global_mesh_name and mapping.
C24_NameIsOwnName ==
    /\ IsMesh(a) => a.name = OwnName(a)
    /\ IsMesh(b) => b.name = OwnName(b)

C26_SplitRowMajor ==
    (res.op = "split" /\ res.status = "ok") =>
        /\ Total(res.d1.mapping) = res.k
        /\ \A c \in Claimed(res.d1.mapping), d \in Claimed(res.d2.mapping) :
              FlatIndex(a.mapping, c) < FlatIndex(a.mapping, d)
        /\ \A c \in Claimed(res.d1.mapping) :
              Cardinality({d \in Claimed(a.mapping) :
                             FlatIndex(a.mapping, d) < FlatIndex(a.mapping, c)}) < res.k

\* two whole nodes split into node 0 and node 1
C26_Witness ==
    /\ res.op = "split" /\ res.status = "ok"
    /\ a.n_nodes >= 2 /\ a.n_gpus_per_node >= 2
    /\ ClaimedRows(res.d1.mapping) = {0}
    /\ ClaimedRows(res.d2.mapping) = {1}

\* C27: every mesh the constructor accepts with fewer than n_gpus_per_node
\* claimed GPUs has all its claimed GPUs on one node.
C27_SubNodeOnOneNode ==
    (IsMesh(a) /\ Total(a.mapping) < a.n_gpus_per_node) =>
        Cardinality(ClaimedRows(a.mapping)) = 1

\* the fields a derived mesh takes over from the mesh it was derived from
SameCluster(d, m) ==
    /\ d.n_nodes = m.n_nodes
    /\ d.n_gpus_per_node = m.n_gpus_per_node
    /\ d.global_mesh_name = m.global_mesh_name
    /\ d.gpu_memory_capacity = m.gpu_memory_capacity

\* C28: every mesh split or sub_device_meshes derives from a mesh has the same
\* n_nodes, n_gpus_per_node, global_mesh_name and gpu_memory_capacity as it.
C28_DerivedKeepCluster ==
    /\ (res.op = "split" /\ res.status = "ok") =>
          SameCluster(res.d1, a) /\ SameCluster(res.d2, a)
    /\ SubReturned =>
          \A k \in 1 .. Len(res.value) : SameCluster(res.value[k], a)

\* -------------------------------------------------------- FrequencyControl
\* the calls of check() that returned, in the order they returned
Calls == hist.calls
\* frequency_steps = N, no frequency_seconds, initial_value false
StepsOnly ==
    /\ hist.args.frequency_steps # None
    /\ hist.args.frequency_seconds = None
    /\ ~ hist.args.initial_value
\* the steps passed from the last True result before call n (or from the
\* creation) up to call n
RECURSIVE Accumulated(_, _)
Accumulated(h, n) ==
    IF n = 0 THEN 0
    ELSE h[n].steps + (IF n > 1 /\ ~ h[n - 1].flag THEN Accumulated(h, n - 1) ELSE 0)
RECURSIVE SumSteps(_)
SumSteps(h) == IF h = << >> THEN 0 ELSE Head(h).steps + SumSteps(Tail(h))
Trues(h) == Cardinality({n \in 1 .. Len(h) : h[n].flag})

\* C29: with frequency_steps = N, no frequency_seconds and initial_value
\* false, a call of check returns True exactly when the steps accumulated
\* since the last True result (or the creation) are at least N, so that at
\* least N steps separate two consecutive True results; with neither
\* frequency set, only the first call returns True, and only when
\* initial_value is true.
C29_StepFrequency ==
    /\ StepsOnly =>
          /\ \A n \in 1 .. Len(Calls) :
                Calls[n].flag <=>
                    (Accumulated(Calls, n) >= Val(hist.args.frequency_steps))
          /\ \A i \in 1 .. Len(Calls), j \in 1 .. Len(Calls) :
                (/\ i < j /\ Calls[i].flag /\ Calls[j].flag
                 /\ \A k \in i + 1 .. j - 1 : ~ Calls[k].flag)
                => SumSteps(SubSeq(Calls, i + 1, j)) >= Val(hist.args.frequency_steps)
    /\ (hist.args.frequency_steps = None /\ hist.args.frequency_seconds = None) =>
          \A n \in 1 .. Len(Calls) :
              Calls[n].flag <=> (n = 1 /\ hist.args.initial_value)

\* with N = 2: a call below N that returned False, then True, then False again
C29_Witness ==
    /\ StepsOnly /\ hist.args.frequency_steps = Some(2)
    /\ Len(Calls) >= 3
    /\ ~ Calls[1].flag /\ Calls[2].flag /\ ~ Calls[3].flag

\* C30: concurrent calls of check take effect one at a time: at most one
\* thread is inside the with block, and once all calls have returned
\* total_steps is the sum of their steps arguments and N times the number of
\* True results is at most total_steps.
C30_ChecksAtomic ==
    StepsOnly =>
        /\ Cardinality({t \in DOMAIN thr : thr[t].pc \notin {"outside", "with"}}) <= 1
        /\ (\A t \in DOMAIN thr : thr[t].pc = "outside") =>
              /\ fc.steps = SumSteps(Calls)
              /\ Trues(Calls) * Val(hist.args.frequency_steps) <= fc.steps

\* all calls have returned, two of them made by different threads and one
\* of them with True
C30_Witness ==
    /\ StepsOnly
    /\ \A t \in DOMAIN thr : thr[t].pc = "outside"
    /\ \E i \in 1 .. Len(Calls), j \in 1 .. Len(Calls) :
          Calls[i].thread # Calls[j].thread /\ Calls[i].flag
====
